---- MODULE Spec2Model ----
(***************************************************************************)
(* Model of the edc_pdf_reports download pipeline: the intermediate page   *)
(* that writes the list of primary keys to the session, and the two        *)
(* PrintPdfReportView classes (views/print_pdf_report_view.py and          *)
(* views.py) that pop the list, render one PDF per key, merge, encrypt     *)
(* and deliver the result.                                                 *)
(*                                                                         *)
(* Requests are those of a logged-in user (login_required lets them       *)
(* through) and run one at a time, as the handlers are synchronous.        *)
(*                                                                         *)
(* Text (pass-phrases, filenames, JSON) is a sequence of one-character     *)
(* strings.  Python's None is the record NONE; a value v is Some(v).       *)
(***************************************************************************)
EXTENDS Integers, Sequences, FiniteSets, TLC

\* ------------------------------------------------------------------ bounds
MaxPks == 2        \* longest list of primary keys written to the session
MaxRequests == 2   \* download requests in one behaviour
MaxWrites == 2     \* session writes in one behaviour

\* ------------------------------------------------------------- python values
NONE == [some |-> FALSE, val |-> <<>>]

Some(v) == [some |-> TRUE, val |-> v]

\* Python truthiness of an optional text: None and "" are falsy.
Truthy(o) == o.some /\ o.val # <<>>

RECURSIVE Concat(_)
\* The concatenation of a sequence of sequences.
Concat(ss) == IF ss = <<>> THEN <<>> ELSE Head(ss) \o Concat(Tail(ss))

\* ------------------------------------------------------------------- str()
\* Primary keys as the database hands them out, and their str() form.
RawPks == {1, 2, 3}

Str(pk) == CASE pk = 1 -> "1" [] pk = 2 -> "2" [] pk = 3 -> "3"

\* ------------------------------------------------------------------- json
RECURSIVE JsonItems(_)
JsonItems(items) ==
    IF items = <<>> THEN <<>>
    ELSE IF Len(items) = 1 THEN <<Head(items)>>
    ELSE <<Head(items), ",">> \o JsonItems(Tail(items))

\* json.dumps of a list of strings: "[" item "," item ... "]".
JsonDumps(items) == <<"[">> \o JsonItems(items) \o <<"]">>

RECURSIVE JsonParseItems(_)
JsonParseItems(toks) ==
    IF toks = <<>> THEN <<>>
    ELSE IF Head(toks) \in {"[", ",", "]"} THEN JsonParseItems(Tail(toks))
    ELSE <<Head(toks)>> \o JsonParseItems(Tail(toks))

\* json.loads of such a text: the list of its items, in order.
JsonLoads(text) == JsonParseItems(text)

\* --------------------------------------------------------------- slugify
Lower(c) == CASE c = "A" -> "a" [] c = "B" -> "b" [] OTHER -> c

WordChars == {"a", "b", "_", "1", "2", "3"}

RECURSIVE LowerAll(_)
LowerAll(s) == IF s = <<>> THEN <<>> ELSE <<Lower(Head(s))>> \o LowerAll(Tail(s))

RECURSIVE KeepSlugChars(_)
\* re.sub(r"[^\w\s-]", "", value)
KeepSlugChars(s) ==
    IF s = <<>> THEN <<>>
    ELSE IF Head(s) \in WordChars \cup {" ", "-"}
         THEN <<Head(s)>> \o KeepSlugChars(Tail(s))
         ELSE KeepSlugChars(Tail(s))

RECURSIVE CollapseDashes(_)
\* re.sub(r"[-\s]+", "-", value)
CollapseDashes(s) ==
    IF s = <<>> THEN <<>>
    ELSE IF Head(s) \in {" ", "-"}
         THEN IF Len(s) > 1 /\ s[2] \in {" ", "-"}
              THEN CollapseDashes(Tail(s))
              ELSE <<"-">> \o CollapseDashes(Tail(s))
         ELSE <<Head(s)>> \o CollapseDashes(Tail(s))

RECURSIVE LStrip(_)
LStrip(s) == IF s # <<>> /\ Head(s) \in {"-", "_"} THEN LStrip(Tail(s)) ELSE s

RECURSIVE RStrip(_)
RStrip(s) ==
    IF s # <<>> /\ s[Len(s)] \in {"-", "_"} THEN RStrip(SubSeq(s, 1, Len(s) - 1)) ELSE s

\* django.utils.text.slugify (ASCII text)
slugify(s) == RStrip(LStrip(CollapseDashes(KeepSlugChars(LowerAll(s)))))

\* Sample outputs of mempass.mkpassword(2): two words separated by a space.
MkPasswordOutputs == {<<"a", " ", "b">>, <<"B", " ", "a">>}

\* ------------------------------------------------------------ str.format
RECURSIVE FormatOk(_)
\* format_html(text, fail_silently=True) runs text.format(fail_silently=...):
\* a brace that is not doubled is a replacement field or a syntax error,
\* and raises.
FormatOk(s) ==
    IF s = <<>> THEN TRUE
    ELSE IF Head(s) \in {"{", "}"}
         THEN Len(s) > 1 /\ s[2] = Head(s) /\ FormatOk(Tail(Tail(s)))
         ELSE FormatOk(Tail(s))

RECURSIVE FormatText(_)
\* ... and a doubled brace comes out as one brace.
FormatText(s) ==
    IF s = <<>> THEN <<>>
    ELSE IF Head(s) \in {"{", "}"} /\ Len(s) > 1
         THEN <<Head(s)>> \o FormatText(Tail(Tail(s)))
         ELSE <<Head(s)>> \o FormatText(Tail(s))

\* ------------------------------------------------------------ the database
\* The records that exist: primary key (as text) -> the number of pages its
\* report lays out and the filename its report class passes to Report.
ExistingPks == {"1", "2"}

PageCount(pk) == IF pk = "1" THEN 1 ELSE 2

FilenameArg(pk) == IF pk = "1" THEN Some(<<"f">>) ELSE NONE

\* uuid4() values a report can draw for its default filename.
Uuids == {<<"u">>, <<"v">>}

\* Report.__init__: self.report_filename = filename or f"{uuid4()}.pdf"
Report_report_filename(filename, uuid) ==
    IF Truthy(filename) THEN filename.val ELSE uuid \o <<".pdf">>

\* A lookup that never fails.
objects_get_any(pk) == TRUE

\* objects.get(pk=pk): TRUE when the record exists, else DoesNotExist.
objects_get(pk) == pk \in ExistingPks

\* doctemplate.build(story, canvasmaker=NumberedCanvas): the finished buffer,
\* one entry per page, each stamped "Page x of y".
render_to_pdf(pk) == [i \in 1..PageCount(pk) |-> [pk |-> pk, x |-> i, y |-> PageCount(pk)]]

\* ------------------------------------------------------------- the PdfWriter
\* PdfWriter(): no pages, not encrypted.
PdfWriter == [pages |-> <<>>, enc |-> NONE]

\* An append that puts the new buffer in front.
merger_append_front(m, buffer) == [m EXCEPT !.pages = buffer \o m.pages]

\* merger.append(fileobj=buffer)
merger_append(m, buffer) == [m EXCEPT !.pages = m.pages \o buffer]

\* The key the writer derives from a pass-phrase.
Kdf(phrase) == <<"#">> \o phrase

\* An encrypt call that does nothing.
merger_encrypt_skipped(m, pw) == m

\* merger.encrypt(password, algorithm="AES-256")
merger_encrypt(m, pw) == [m EXCEPT !.enc = Some(Kdf(pw))]

\* BytesIO(): nothing written.
BytesIO == [written |-> FALSE, pages |-> <<>>, enc |-> NONE]

\* merger.write(new_buffer)
merger_write(m) == [written |-> TRUE, pages |-> m.pages, enc |-> m.enc]

\* A reader opens the document with a pass-phrase.
Decrypts(doc, phrase) == (~doc.enc.some) \/ doc.enc.val = Kdf(phrase)

\* choose_password that slugifies the supplied phrase as well.
choose_password_slug_all(phrase, mk) ==
    IF Truthy(phrase) THEN slugify(phrase.val) ELSE slugify(mk)

\* password = kwargs.get("phrase") or slugify(mempass.mkpassword(2))
choose_password(phrase, mk) == IF Truthy(phrase) THEN phrase.val ELSE slugify(mk)

\* ------------------------------------------------------------------ views
\* views.py and the package views/ both claim the module name
\* edc_pdf_reports.views, so a build has one of them: the PrintPdfReportView
\* that urls.py imports, together with the page that feeds its session key.
ViewPkg == "views.print_pdf_report_view"   \* views/print_pdf_report_view.py
ViewMod == "views"                         \* views.py

Views == {ViewPkg, ViewMod}

\* The session key each PrintPdfReportView pops.
session_key(view) == IF view = ViewPkg THEN "model_pks" ELSE "report_pks"

SessionKeys == {"model_pks", "report_pks"}

\* request.POST.get("phrase"): None when the field is absent.
PostPhrases == {NONE, Some(<<>>), Some(<<"A", " ">>), Some(<<"{">>)}

\* Class-level generic filename of the report class
\* (get_generic_report_filename() / multi_report_filename).
GenericFilenames == {NONE, Some(<<>>), Some(<<"g">>)}

RECURSIVE SeqsUpTo(_, _)
\* The sequences over S of length 0..n.
SeqsUpTo(S, n) ==
    IF n = 0 THEN {<<>>}
    ELSE LET shorter == SeqsUpTo(S, n - 1)
         IN shorter \cup {Append(q, x) : q \in {r \in shorter : Len(r) = n - 1}, x \in S}

\* The pipeline with the buffer written before the merger is encrypted.
Pipeline_write_first == <<"write", "encrypt", "filename", "message", "respond", "done">>

\* The pipeline stages that follow the render loop, in the order
\* render_to_response runs them.
Pipeline == <<"encrypt", "write", "filename", "message", "respond", "done">>

PipelineStart == Pipeline[1]

StageAfter(stage) ==
    LET i == CHOOSE k \in 1..Len(Pipeline) : Pipeline[k] = stage
    IN Pipeline[i + 1]

\* get_report_filename that forgets the generic branch.
get_report_filename_record_only(n, record_filename, generic) == Some(record_filename)

\* get_report_filename (views/print_pdf_report_view.py) and the filename
\* expression of views.py render_to_response: the record's own filename for
\* one primary key, else the generic one.
get_report_filename(n, record_filename, generic) ==
    IF n = 1 THEN Some(record_filename) ELSE generic

\* A check for None alone: "if report_filename is None".
filename_is_none(fn) == ~fn.some

\* if not report_filename: raise ValueError(...)
filename_missing(fn) == ~Truthy(fn)

VARIABLES
    routed_view,        \* the PrintPdfReportView that urls.py imports
    session,            \* request.session: key -> NONE or Some(JSON text)
    generic_filename,   \* the report class's generic filename
    pc,                 \* position of the request in flight
    req,                \* the request in flight: view, method, phrase
    model_pks,          \* the list read from the session
    idx,                \* loop position in model_pks
    merger,             \* the PdfWriter
    password,           \* the pass-phrase chosen for encryption
    generated,          \* the raw output of mkpassword, when it was called
    new_buffer,         \* the BytesIO the merged document is written to
    pdf_report,         \* the report object the filename is read from
    report_filename,    \* the filename computed for the response
    notes,              \* messages emitted by the request in flight
    response,           \* what the request returned or raised
    trace,              \* the steps the request in flight has taken
    popped,             \* key -> a request popped it and nothing wrote it since
    popper,             \* the method of that request, "" when there is none
    nRequests, nWrites, nFiles

vars == <<routed_view, session, generic_filename, pc, req, model_pks, idx, merger, password,
          generated, new_buffer, pdf_report, report_filename, notes, response,
          trace, popped, popper, nRequests, nWrites, nFiles>>

NoRequest == [view |-> "", method |-> "", phrase |-> NONE, had_entry |-> FALSE, replay |-> FALSE]

NoReport == [some |-> FALSE, pk |-> "", report_filename |-> <<>>]

NoResponse == [kind |-> "none", exc |-> "", at |-> "", filename |-> <<>>, body |-> BytesIO]

Raise(exc, at) == [NoResponse EXCEPT !.kind = "exception", !.exc = exc, !.at = at]

HttpResponseRedirect == [NoResponse EXCEPT !.kind = "redirect"]

FileResponse(buffer, filename) ==
    [NoResponse EXCEPT !.kind = "file", !.filename = filename, !.body = buffer]

Init ==
    /\ routed_view \in Views
    /\ session = [k \in SessionKeys |-> NONE]
    /\ generic_filename \in GenericFilenames
    /\ pc = "idle"
    /\ req = NoRequest
    /\ model_pks = <<>>
    /\ idx = 1
    /\ merger = PdfWriter
    /\ password = NONE
    /\ generated = NONE
    /\ new_buffer = BytesIO
    /\ pdf_report = NoReport
    /\ report_filename = NONE
    /\ notes = <<>>
    /\ response = NoResponse
    /\ trace = <<>>
    /\ popped = [k \in SessionKeys |-> FALSE]
    /\ popper = ""
    /\ nRequests = 0
    /\ nWrites = 0
    /\ nFiles = 0

Idle == pc \in {"idle", "done"}

local_vars == <<model_pks, idx, merger, password, generated, new_buffer, pdf_report,
                report_filename, notes, response, trace>>

counters == <<nRequests, nWrites, nFiles>>

\* The locals of a finished request are released when the next one starts.
ForgetRequest ==
    /\ pc' = "idle"
    /\ req' = NoRequest
    /\ model_pks' = <<>>
    /\ idx' = 1
    /\ merger' = PdfWriter
    /\ password' = NONE
    /\ generated' = NONE
    /\ new_buffer' = BytesIO
    /\ pdf_report' = NoReport
    /\ report_filename' = NONE
    /\ notes' = <<>>
    /\ response' = NoResponse
    /\ trace' = <<>>

\* ------------------------------------------------------------ session writes
\* PdfIntermediateView.get (views.py): self.pks, or the pk of the URL when
\* self.pks is empty, goes to the session as JSON under "report_pks".
PdfIntermediateView_get(pks, url_pk) ==
    /\ routed_view = ViewMod
    /\ Idle
    /\ nWrites < MaxWrites
    /\ LET self_pks == IF pks = <<>> THEN <<url_pk>> ELSE pks
           strs == [i \in 1..Len(self_pks) |-> Str(self_pks[i])]
       IN session' = [session EXCEPT !["report_pks"] = Some(JsonDumps(strs))]
    /\ popped' = [popped EXCEPT !["report_pks"] = FALSE]
    /\ popper' = ""
    /\ nWrites' = nWrites + 1
    /\ ForgetRequest
    /\ UNCHANGED <<routed_view, generic_filename, nRequests, nFiles>>

\* The upstream collaborator of views/print_pdf_report_view.py: the selected
\* primary keys go to the session as JSON under "model_pks".
write_model_pks(pks) ==
    /\ routed_view = ViewPkg
    /\ Idle
    /\ nWrites < MaxWrites
    /\ LET strs == [i \in 1..Len(pks) |-> Str(pks[i])]
       IN session' = [session EXCEPT !["model_pks"] = Some(JsonDumps(strs))]
    /\ popped' = [popped EXCEPT !["model_pks"] = FALSE]
    /\ popper' = ""
    /\ nWrites' = nWrites + 1
    /\ ForgetRequest
    /\ UNCHANGED <<routed_view, generic_filename, nRequests, nFiles>>

\* ---------------------------------------------------------- request handlers
\* View.dispatch to a handler: every handler ends in get(), and only post()
\* puts the form's phrase into kwargs.
dispatch(view, method, phrase) ==
    /\ Idle
    /\ nRequests < MaxRequests
    /\ req' = [view |-> view, method |-> method, phrase |-> phrase,
               had_entry |-> session[session_key(view)].some,
               replay |-> popped[session_key(view)]]
    /\ pc' = "pop"
    /\ model_pks' = <<>>
    /\ idx' = 1
    /\ merger' = PdfWriter
    /\ password' = NONE
    /\ generated' = NONE
    /\ new_buffer' = BytesIO
    /\ pdf_report' = NoReport
    /\ report_filename' = NONE
    /\ notes' = <<>>
    /\ response' = NoResponse
    /\ trace' = <<>>
    /\ nRequests' = nRequests + 1
    /\ UNCHANGED <<routed_view, session, generic_filename, popped, popper, nWrites, nFiles>>

get == dispatch(routed_view, "get", NONE)

post(phrase) == dispatch(routed_view, "post", phrase)

head == dispatch(routed_view, "head", NONE)

options == dispatch(routed_view, "options", NONE)

delete == dispatch(routed_view, "delete", NONE)

put == dispatch(routed_view, "put", NONE)

patch == dispatch(routed_view, "patch", NONE)

\* ------------------------------------------------------------------ pipeline
\* A read that leaves the entry in the session: session[key] or session.get.
session_peek(sess, key) == sess

\* self.request.session.pop(key)
session_pop(sess, key) == [sess EXCEPT ![key] = NONE]

\* What a missing session entry leads to: render_to_response of
\* views/print_pdf_report_view.py catches the KeyError and goes on to the
\* error report; get_context_data of views.py does not catch it.
missing_session_pc(view) == IF view = ViewPkg THEN "error" ELSE "done"

missing_session_response(view) ==
    IF view = ViewPkg THEN NoResponse ELSE Raise("KeyError", "pop")

\* model_pks = json.loads(self.request.session.pop(self.session_key))
PopSession ==
    /\ pc = "pop"
    /\ LET key == session_key(req.view)
       IN IF session[key].some
          THEN /\ model_pks' = JsonLoads(session[key].val)
               /\ session' = session_pop(session, key)
               /\ popped' = [popped EXCEPT ![key] = TRUE]
               /\ popper' = req.method
               /\ pc' = IF model_pks' = <<>> THEN PipelineStart ELSE "render"
               /\ trace' = Append(trace, "pop")
               /\ UNCHANGED response
          ELSE /\ pc' = missing_session_pc(req.view)
               /\ response' = missing_session_response(req.view)
               /\ UNCHANGED <<model_pks, session, popped, popper, trace>>
    /\ UNCHANGED <<routed_view, generic_filename, req, idx, merger, password, generated, new_buffer,
                   pdf_report, report_filename, notes, counters>>

\* message_user with its two arguments mixed up.
success_message_swapped(filename, pw) ==
    [level |-> "success", file |-> FormatText(pw), password |-> FormatText(filename)]

\* The text of message_user: "... File: <report_filename> <BR>Pass-phrase:
\* <password>", after format_html has run str.format over it.
success_message(filename, pw) ==
    [level |-> "success", file |-> FormatText(filename), password |-> FormatText(pw)]

\* The text of messages.error in render_to_response.
error_message == [level |-> "error", file |-> <<>>, password |-> <<>>]

\* messages.error(...); return HttpResponseRedirect("/")
ErrorRedirect ==
    /\ pc = "error"
    /\ notes' = Append(notes, error_message)
    /\ response' = HttpResponseRedirect
    /\ pc' = "done"
    /\ UNCHANGED <<routed_view, session, generic_filename, req, model_pks, idx, merger, password,
                   generated, new_buffer, pdf_report, report_filename, trace, popped, popper,
                   counters>>

\* One pass of the loop "for pk in model_pks": render the record to a buffer,
\* append the buffer to the merger.
RenderEach ==
    /\ pc = "render"
    /\ idx <= Len(model_pks)
    /\ LET pk == model_pks[idx]
       IN IF objects_get(pk)
          THEN /\ merger' = merger_append(merger, render_to_pdf(pk))
               /\ idx' = idx + 1
               /\ IF req.view = ViewMod
                  THEN \E u \in Uuids :
                         pdf_report' = [some |-> TRUE, pk |-> pk,
                                        report_filename |->
                                            Report_report_filename(FilenameArg(pk), u)]
                  ELSE UNCHANGED pdf_report
               /\ pc' = IF idx' > Len(model_pks) THEN PipelineStart ELSE "render"
               /\ trace' = trace \o <<"render", "append">>
               /\ UNCHANGED response
          ELSE /\ response' = Raise("DoesNotExist", "render")
               /\ pc' = "done"
               /\ UNCHANGED <<merger, idx, pdf_report, trace>>
    /\ UNCHANGED <<routed_view, session, generic_filename, req, model_pks, password, generated,
                   new_buffer, report_filename, notes, popped, popper, counters>>

\* password = kwargs.get("phrase") or slugify(mempass.mkpassword(2))
\* merger.encrypt(password, algorithm="AES-256")
Encrypt ==
    /\ pc = "encrypt"
    /\ \E mk \in MkPasswordOutputs :
         /\ password' = Some(choose_password(req.phrase, mk))
         /\ generated' = IF Truthy(req.phrase) THEN NONE ELSE Some(mk)
    /\ merger' = merger_encrypt(merger, password'.val)
    /\ pc' = StageAfter("encrypt")
    /\ trace' = Append(trace, "encrypt")
    /\ UNCHANGED <<routed_view, session, generic_filename, req, model_pks, idx, new_buffer, pdf_report,
                   report_filename, notes, response, popped, popper, counters>>

\* merger.write(new_buffer)
Write ==
    /\ pc = "write"
    /\ new_buffer' = merger_write(merger)
    /\ pc' = StageAfter("write")
    /\ trace' = Append(trace, "write")
    /\ UNCHANGED <<routed_view, session, generic_filename, req, model_pks, idx, merger, password,
                   generated, pdf_report, report_filename, notes, response, popped, popper,
                   counters>>

\* report_filename = self.get_report_filename(model_pks, app_label, model_name)
\* in views/print_pdf_report_view.py, which builds a new report for the one
\* record; in views.py the expression on the last report of the loop.
Filename ==
    /\ pc = "filename"
    /\ LET n == Len(model_pks)
       IN IF req.view = ViewMod /\ ~pdf_report.some
          THEN /\ response' = Raise("AttributeError", "filename")
               /\ pc' = "done"
               /\ UNCHANGED <<pdf_report, report_filename, trace>>
          ELSE /\ IF req.view = ViewPkg /\ n = 1
                  THEN \E u \in Uuids :
                         pdf_report' = [some |-> TRUE, pk |-> model_pks[1],
                                        report_filename |->
                                            Report_report_filename(FilenameArg(model_pks[1]), u)]
                  ELSE UNCHANGED pdf_report
               /\ LET fn == get_report_filename(n, pdf_report'.report_filename,
                                                generic_filename)
                  IN IF filename_missing(fn)
                     THEN /\ response' = Raise("ValueError", "filename")
                          /\ pc' = "done"
                          /\ UNCHANGED <<report_filename, trace>>
                     ELSE /\ report_filename' = fn
                          /\ pc' = StageAfter("filename")
                          /\ trace' = Append(trace, "filename")
                          /\ UNCHANGED response
    /\ UNCHANGED <<routed_view, session, generic_filename, req, model_pks, idx, merger, password,
                   generated, new_buffer, notes, popped, popper, counters>>

\* self.message_user(report_filename=report_filename, password=password)
MessageUser ==
    /\ pc = "message"
    /\ IF FormatOk(report_filename.val) /\ FormatOk(password.val)
       THEN /\ notes' = Append(notes, success_message(report_filename.val, password.val))
            /\ pc' = StageAfter("message")
            /\ trace' = Append(trace, "message")
            /\ UNCHANGED response
       ELSE /\ response' = Raise("ValueError", "message")
            /\ pc' = "done"
            /\ UNCHANGED <<notes, trace>>
    /\ UNCHANGED <<routed_view, session, generic_filename, req, model_pks, idx, merger, password,
                   generated, new_buffer, pdf_report, report_filename, popped, popper, counters>>

\* return FileResponse(new_buffer, as_attachment=True, filename=report_filename)
Respond ==
    /\ pc = "respond"
    /\ response' = FileResponse(new_buffer, report_filename.val)
    /\ nFiles' = nFiles + 1
    /\ pc' = StageAfter("respond")
    /\ trace' = Append(trace, "respond")
    /\ UNCHANGED <<routed_view, session, generic_filename, req, model_pks, idx, merger, password,
                   generated, new_buffer, pdf_report, report_filename, notes, popped, popper,
                   nRequests, nWrites>>

PkLists == SeqsUpTo(RawPks, MaxPks)

Next ==
    \* self.pks empty: the pk of the URL is used; else the URL's pk is not read
    \/ \E url_pk \in RawPks : PdfIntermediateView_get(<<>>, url_pk)
    \/ \E pks \in PkLists \ {<<>>} : PdfIntermediateView_get(pks, CHOOSE k \in RawPks : TRUE)
    \/ \E pks \in PkLists \ {<<>>} : write_model_pks(pks)
    \/ get
    \/ \E phrase \in PostPhrases : post(phrase)
    \/ head
    \/ options
    \/ delete
    \/ put
    \/ patch
    \/ PopSession
    \/ ErrorRedirect
    \/ RenderEach
    \/ Encrypt
    \/ Write
    \/ Filename
    \/ MessageUser
    \/ Respond

Spec == Init /\ [][Next]_vars

\* ------------------------------------------------------------- vocabulary
InRequest == req.view # ""

Done == pc = "done"

Delivered == response.kind = "file"

Raised == response.kind = "exception"

Redirected == response.kind = "redirect"

SuccessNotes == {i \in 1..Len(notes) : notes[i].level = "success"}

Events(e) == {i \in 1..Len(trace) : trace[i] = e}

\* The documents of the first n primary keys of the list, in list order.
DocsOf(pks, n) == [i \in 1..n |-> render_to_pdf(pks[i])]

RECURSIVE SumPages(_)
SumPages(pks) == IF pks = <<>> THEN 0 ELSE PageCount(Head(pks)) + SumPages(Tail(pks))

\* Pass-phrases a reader may try on a delivered document.
TryPhrases ==
    {p.val : p \in PostPhrases} \cup MkPasswordOutputs
        \cup {slugify(m) : m \in MkPasswordOutputs}
        \cup {slugify(p.val) : p \in PostPhrases}

\* ------------------------------------------------------------------ claims

\* C1: a download request made while the session holds no pending identifier
\* entry ends with a redirect and exactly one error notification; it raises
\* nothing, renders nothing, emits no success notification, returns no file.
C1_MissingSessionRedirects ==
    (InRequest /\ ~req.had_entry) =>
        /\ ~Raised
        /\ ~Delivered
        /\ Events("render") = {}
        /\ SuccessNotes = {}
        /\ Done => (Redirected /\ Len(notes) = 1 /\ notes[1] = error_message)

\* C2: the session entry is single-use: a download request that follows a
\* request which read the entry, with no session write in between, finds no
\* entry and ends with a redirect and an error notification; and the number
\* of delivered files never exceeds the number of session writes.
C2_SingleUse ==
    /\ nFiles <= nWrites
    /\ (InRequest /\ req.replay) => ~req.had_entry
    /\ (InRequest /\ req.replay /\ Done) =>
           (Redirected /\ Len(notes) = 1 /\ notes[1] = error_message)

\* C3: the filename of a delivered file is decided by the number N of
\* identifiers read from the session: for N = 1 it is the report_filename of
\* the report of that one record, for N > 1 it is the generic filename of the
\* report class, whichever records were requested.
C3_FilenameByCount ==
    Delivered =>
        /\ Len(model_pks) = 1 =>
              /\ pdf_report.some
              /\ pdf_report.pk = model_pks[1]
              /\ response.filename = pdf_report.report_filename
              /\ \E u \in Uuids :
                    response.filename = Report_report_filename(FilenameArg(model_pks[1]), u)
        /\ Len(model_pks) > 1 =>
              /\ generic_filename.some
              /\ response.filename = generic_filename.val

C3_Witness ==
    /\ Delivered
    /\ model_pks = <<"2">>
    /\ response.filename = <<"u", ".pdf">>

\* C4: when the POST form carries a pass-phrase, the merger is encrypted with
\* exactly that phrase, unchanged; the delivered document opens with that
\* phrase and with no other; mkpassword is not called in that request.
C4_SuppliedPhraseVerbatim ==
    (InRequest /\ req.method = "post" /\ Truthy(req.phrase)) =>
        /\ generated = NONE
        /\ password.some => password.val = req.phrase.val
        /\ merger.enc.some => merger.enc.val = Kdf(req.phrase.val)
        /\ Delivered =>
              /\ response.body.enc.some
              /\ \A p \in TryPhrases : Decrypts(response.body, p) <=> p = req.phrase.val

C4_Witness ==
    /\ Delivered
    /\ req.method = "post"
    /\ req.phrase = Some(<<"A", " ">>)

\* C5: when no pass-phrase is supplied and the request finds its identifiers,
\* one pass-phrase is generated, the merger is encrypted with it, and the
\* success notification carries that same pass-phrase.
C5_GeneratedPhraseEchoed ==
    (InRequest /\ ~Truthy(req.phrase)) =>
        /\ password.some =>
              /\ generated.some
              /\ generated.val \in MkPasswordOutputs
              /\ password.val = slugify(generated.val)
        /\ merger.enc.some => (password.some /\ merger.enc.val = Kdf(password.val))
        /\ \A i \in SuccessNotes : password.some /\ notes[i].password = password.val
        /\ Delivered =>
              /\ Cardinality(SuccessNotes) = 1
              /\ \A i \in SuccessNotes :
                    /\ Decrypts(response.body, notes[i].password)
                    /\ response.body.enc.some

C5_Witness ==
    /\ Delivered
    /\ ~req.phrase.some
    /\ generated = Some(<<"B", " ", "a">>)
    /\ notes[1].password = <<"b", "-", "a">>

\* C6: each identifier of the list, each occurrence, in list order, is
\* rendered to one buffer that is appended once: the merged document is the
\* concatenation of the per-record documents in list order, and its page
\* count is the sum of their page counts.
C6_MergedIsConcatenation ==
    (InRequest /\ pc # "pop") =>
        /\ idx <= Len(model_pks) + 1
        /\ merger.pages = Concat(DocsOf(model_pks, idx - 1))
        /\ Cardinality(Events("render")) = idx - 1
        /\ Cardinality(Events("append")) = idx - 1
        /\ Delivered =>
              /\ response.body.pages = Concat(DocsOf(model_pks, Len(model_pks)))
              /\ Len(response.body.pages) = SumPages(model_pks)

C6_Witness ==
    /\ Delivered
    /\ model_pks = <<"2", "1">>
    /\ Len(response.body.pages) = 3

\* C7: when an identifier of the list names a record that does not exist,
\* the lookup failure leaves the request as an exception: the request stops
\* at that identifier, delivers no file, emits no success notification and
\* renders nothing after it, whatever the position of the identifier.
C7_NotFoundPropagates ==
    (InRequest /\ \E i \in 1..Len(model_pks) : model_pks[i] \notin ExistingPks) =>
        LET first == CHOOSE i \in 1..Len(model_pks) :
                        /\ model_pks[i] \notin ExistingPks
                        /\ \A j \in 1..(i - 1) : model_pks[j] \in ExistingPks
        IN /\ pc \in {"render", "done"}
           /\ idx <= first
           /\ ~Delivered
           /\ ~Redirected
           /\ SuccessNotes = {}
           /\ ~merger.enc.some
           /\ ~new_buffer.written
           /\ Done => (response = Raise("DoesNotExist", "render") /\ idx = first)

C7_Witness ==
    /\ Done
    /\ model_pks = <<"1", "3">>
    /\ response = Raise("DoesNotExist", "render")
    /\ idx = 2

\* C8: when the filename computed for the response is missing or empty, the
\* request fails with ValueError before the success notification and before
\* any file response; no file is delivered with an empty filename.
C8_MissingFilenameIsFatal ==
    /\ Delivered => response.filename # <<>>
    /\ \A i \in SuccessNotes : Truthy(report_filename)
    /\ (InRequest /\ Len(model_pks) > 1 /\ ~Truthy(generic_filename)
          /\ pc \in {"message", "respond", "done"} /\ Events("write") # {}) =>
           /\ response = Raise("ValueError", "filename")
           /\ notes = <<>>
    /\ response = Raise("ValueError", "filename") =>
           /\ notes = <<>>
           /\ ~Truthy(report_filename)
           /\ Events("message") = {}
           /\ Events("respond") = {}

C8_Witness ==
    /\ Done
    /\ response = Raise("ValueError", "filename")
    /\ generic_filename = Some(<<>>)
    /\ Len(model_pks) = 2

\* The steps of a request that delivers a file with n identifiers.
RECURSIVE RenderSteps(_)
RenderSteps(n) == IF n = 0 THEN <<>> ELSE <<"render", "append">> \o RenderSteps(n - 1)

\* C9: a request that delivers a file has gone through the stages in the
\* order pop, render and append once per identifier, encrypt, write,
\* filename, message, respond; the merger is encrypted only after the last
\* buffer is appended and before it is written, and the success notification
\* and the file response come only after the encrypted bytes are written.
C9_StageOrder ==
    /\ Delivered =>
          trace = <<"pop">> \o RenderSteps(Len(model_pks))
                    \o <<"encrypt", "write", "filename", "message", "respond">>
    /\ Events("render") # {} => trace[1] = "pop"
    /\ merger.enc.some => idx = Len(model_pks) + 1
    /\ new_buffer.written => (merger.enc.some /\ new_buffer.enc = merger.enc)
    /\ SuccessNotes # {} => (new_buffer.written /\ new_buffer.enc.some)
    /\ Delivered => SuccessNotes # {}

C9_Witness ==
    /\ Delivered
    /\ Len(model_pks) = 2
    /\ Len(trace) = 10

\* C10: encryption is never skipped: every file response carries a document
\* encrypted with a non-empty pass-phrase, the supplied one, or a generated
\* one when the supplied value is absent or empty.
C10_AlwaysEncrypted ==
    Delivered =>
        /\ response.body.enc.some
        /\ password.some
        /\ password.val # <<>>
        /\ response.body.enc.val = Kdf(password.val)
        /\ ~Decrypts(response.body, <<>>)
        /\ IF Truthy(req.phrase)
           THEN password.val = req.phrase.val
           ELSE generated.some /\ password.val = slugify(generated.val)

C10_Witness ==
    /\ Delivered
    /\ req.method = "post"
    /\ req.phrase = Some(<<>>)
    /\ response.body.enc.some

\* The handlers of PrintPdfReportView.
Methods == {"get", "post", "head", "options", "delete", "put", "patch"}

\* The part of C11 that both views satisfy: every handler (get, post, head,
\* options, delete, put, patch) runs the same pipeline and pops the session
\* entry, and only post passes a pass-phrase: a request with a method other
\* than post that finds the entry consumes it and encrypts with a generated
\* phrase, and a post that follows it with no session write in between finds
\* no entry, runs no stage of the pipeline and returns no file.  In
\* views/print_pdf_report_view.py that post ends with the redirect and the
\* error notification; in views.py it ends with KeyError.
C11_AnyMethodConsumes ==
    /\ InRequest => req.method \in Methods
    /\ (InRequest /\ req.had_entry /\ pc # "pop") =>
          /\ ~session[session_key(req.view)].some
          /\ popped[session_key(req.view)]
          /\ popper = req.method
          /\ trace # <<>> /\ trace[1] = "pop"
    /\ (InRequest /\ req.method # "post") =>
          /\ req.phrase = NONE
          /\ password.some =>
                (generated.some /\ password.val = slugify(generated.val))
          /\ merger.enc.some =>
                (generated.some /\ merger.enc.val = Kdf(slugify(generated.val)))
          /\ Delivered => Decrypts(response.body, slugify(generated.val))
    /\ (InRequest /\ req.method = "post" /\ req.replay /\ popper \in Methods \ {"post"}) =>
          /\ ~req.had_entry
          /\ trace = <<>>
          /\ merger = PdfWriter
          /\ ~Delivered
          /\ SuccessNotes = {}
          /\ pc \in {"pop", "error", "done"}
          /\ Done => (Redirected \/ response = Raise("KeyError", "pop"))
          /\ (Done /\ req.view = ViewPkg) =>
                (Redirected /\ notes = <<error_message>>)

C11_Witness ==
    /\ Done
    /\ req.view = ViewPkg
    /\ req.method = "post"
    /\ req.phrase = Some(<<"A", " ">>)
    /\ req.replay
    /\ popper = "head"
    /\ Redirected
    /\ nFiles = 1

\* C11: every handler runs the same pipeline and pops the session entry, and
\* only post passes a pass-phrase; after a session write, a request with a
\* method other than post consumes the identifiers and encrypts with a
\* generated phrase, and a following post with no new session write fails
\* with MissingSession: a redirect and an error notification.
C11_PostAfterOtherMethodRedirects ==
    /\ C11_AnyMethodConsumes
    /\ (InRequest /\ Done /\ req.method = "post" /\ req.replay
          /\ popper \in Methods \ {"post"}) =>
           (Redirected /\ notes = <<error_message>>)

====
